---- MODULE Spec2Model ----
(***************************************************************************)
(* A model of src/types.rs of rust-sourcemap: the regular source map with  *)
(* its sorted lookup index, the indexed source map with its sections, the  *)
(* flatten operation, the rewrite pipeline, the metadata edits, and the    *)
(* recovery of minified and original names from a minified source text.   *)
(*                                                                         *)
(* Conventions.                                                            *)
(*  - Option<T> is a sequence of length <= 1: None is << >>, Some(x) <<x>>.*)
(*  - Vec indices are 0-based as in the code; element i of a Vec v is      *)
(*    v[i + 1].                                                            *)
(*  - u32 is modelled as an unsigned integer of U32Bits bits; the sentinel *)
(*    !0 is the all-ones value MaxU32.  Arithmetic on it is either checked *)
(*    (the build panics on overflow) or wrapping (modulo 2^U32Bits).       *)
(*  - A source string is a sequence of one-character strings, so that      *)
(*    prefixes can be computed; names and contents are compared only for   *)
(*    equality and are plain strings.                                      *)
(*  - A minified source text is a sequence of characters, each a string    *)
(*    naming it; usize is an unsigned integer of twice the bits of u32.    *)
(***************************************************************************)
EXTENDS Integers, Sequences, FiniteSets, TLC

\* pc:       the operation called last ("new" after construction)
\* sm:       the regular map (struct SourceMap)
\* sections: the sections of the indexed map (SourceMapIndex::sections)
\* kind:     the variant of the document (enum DecodedMap)
\* arg, ret: the arguments and the outcome of the operation called last
\* iter:     the reverse token iterator in use, if any (struct
\*           ReverseOriginalTokenIter)
VARIABLES pc, sm, sections, kind, arg, ret, iter

vars == <<pc, sm, sections, kind, arg, ret, iter>>

(***************************************************************************)
(* Bounds of the model.                                                    *)
(***************************************************************************)
U32Bits == 5
MaxTokens == 3

\* u32: the values of the type, its greatest value, and the sentinel !0
U32Modulus == 2 ^ U32Bits
MaxU32 == U32Modulus - 1
Sentinel == MaxU32

None == << >>
Some(x) == <<x>>
IsSome(o) == Len(o) > 0
Unwrap(o) == o[1]

\* the lexicographic order of (u32, u32) tuples, `(a, b) < (c, d)` in Rust
PairLess(a, b) == a[1] < b[1] \/ (a[1] = b[1] /\ a[2] < b[2])
PairLeq(a, b) == a = b \/ PairLess(a, b)

\* the derived Ord of (u32, u32, u32): what `index.sort()` compares with
TripleLess_tiesReversed(a, b) ==
    \/ a[1] < b[1]
    \/ (a[1] = b[1] /\ a[2] < b[2])
    \/ (a[1] = b[1] /\ a[2] = b[2] /\ a[3] > b[3])

TripleLess(a, b) ==
    \/ a[1] < b[1]
    \/ (a[1] = b[1] /\ a[2] < b[2])
    \/ (a[1] = b[1] /\ a[2] = b[2] /\ a[3] < b[3])

\* insertion of one tuple into a sorted sequence
RECURSIVE InsertSorted(_, _)
InsertSorted(s, x) ==
    IF s = << >> THEN <<x>>
    ELSE IF TripleLess(x, Head(s)) THEN <<x>> \o s
    ELSE <<Head(s)>> \o InsertSorted(Tail(s), x)

\* Vec::sort on the index tuples
RECURSIVE SortIndex(_)
SortIndex(s) ==
    IF s = << >> THEN << >>
    ELSE InsertSorted(SortIndex(SubSeq(s, 1, Len(s) - 1)), s[Len(s)])

RawToken(dl, dc, sl, sc, sid, nid) ==
    [dst_line |-> dl, dst_col |-> dc, src_line |-> sl, src_col |-> sc,
     src_id |-> sid, name_id |-> nid]

\* SourceMap::new
SourceMap_new_unsorted(file, tokens, names, sources, sources_content) ==
    [file |-> file,
     tokens |-> tokens,
     index |-> [i \in 1..Len(tokens) |->
                  <<tokens[i].dst_line, tokens[i].dst_col, i - 1>>],
     names |-> names,
     sources |-> sources,
     sources_content |-> IF IsSome(sources_content) THEN Unwrap(sources_content)
                         ELSE << >>]

SourceMap_new(file, tokens, names, sources, sources_content) ==
    [file |-> file,
     tokens |-> tokens,
     index |-> SortIndex([i \in 1..Len(tokens) |->
                  <<tokens[i].dst_line, tokens[i].dst_col, i - 1>>]),
     names |-> names,
     sources |-> sources,
     sources_content |-> IF IsSome(sources_content) THEN Unwrap(sources_content)
                         ELSE << >>]

\* SourceMap::get_token: the token view (raw token and its index)
get_token(m, idx) ==
    IF idx < Len(m.tokens) THEN Some([raw |-> m.tokens[idx + 1], idx |-> idx])
    ELSE None

\* the binary search loop of SourceMap::lookup_token; returns `low`
RECURSIVE lookup_loop_leq(_, _, _, _)
lookup_loop_leq(index, q, low, high) ==
    IF low < high
    THEN LET mid == (low + high) \div 2
             ii == index[mid + 1]
         IN IF PairLeq(q, <<ii[1], ii[2]>>)
            THEN lookup_loop_leq(index, q, low, mid)
            ELSE lookup_loop_leq(index, q, mid + 1, high)
    ELSE low

RECURSIVE lookup_loop(_, _, _, _)
lookup_loop(index, q, low, high) ==
    IF low < high
    THEN LET mid == (low + high) \div 2
             ii == index[mid + 1]
         IN IF PairLess(q, <<ii[1], ii[2]>>)
            THEN lookup_loop(index, q, low, mid)
            ELSE lookup_loop(index, q, mid + 1, high)
    ELSE low

\* SourceMap::lookup_token
SourceMap_lookup_token(m, line, col) ==
    LET low == lookup_loop(m.index, <<line, col>>, 0, Len(m.index))
    IN IF low > 0 /\ low <= Len(m.index)
       THEN get_token(m, m.index[low][3])
       ELSE None

\* SourceMap::get_source
get_source(m, idx) ==
    IF idx < Len(m.sources) THEN Some(m.sources[idx + 1]) ELSE None

\* SourceMap::get_name
get_name(m, idx) ==
    IF idx < Len(m.names) THEN Some(m.names[idx + 1]) ELSE None

\* SourceMap::get_source_contents
get_source_contents(m, idx) ==
    IF idx < Len(m.sources_content) THEN m.sources_content[idx + 1] ELSE None

\* Token::get_source
Token_get_source(m, raw) ==
    IF raw.src_id = Sentinel THEN None ELSE get_source(m, raw.src_id)

\* Token::get_name
Token_get_name(m, raw) ==
    IF raw.name_id = Sentinel THEN None ELSE get_name(m, raw.name_id)

\* SourceMapSection::new
SourceMapSection_new(offset, url, map) ==
    [offset |-> offset, url |-> url, map |-> map]

\* SourceMapSection::set_sourcemap
set_sourcemap(section, map) == [section EXCEPT !.map = map]

\* The outcome of a lookup in an indexed map: the token found and the section
\* that holds it, whether one of the subtractions `line - off_line`,
\* `col - off_col` was evaluated with an offset greater than the coordinate,
\* and whether the call panicked on it (a build with overflow checks).
LookupOutcome(tok, section, underflow, panic) ==
    [tok |-> tok, section |-> section, underflow |-> underflow, panic |-> panic]

\* the loop of SourceMapIndex::lookup_token from section i (1-based) on;
\* `checked` is whether the build checks arithmetic overflow
RECURSIVE index_lookup_loop(_, _, _, _, _, _)
index_lookup_loop(secs, i, line, col, checked, under) ==
    IF i > Len(secs) THEN LookupOutcome(None, 0, under, FALSE)
    ELSE
      LET off == secs[i].offset
          u == off[1] > line \/ off[2] > col
      IN IF off[1] < line \/ off[2] < col
         THEN index_lookup_loop(secs, i + 1, line, col, checked, under)
         ELSE IF secs[i].map = None
         THEN index_lookup_loop(secs, i + 1, line, col, checked, under)
         ELSE IF u /\ checked THEN LookupOutcome(None, 0, TRUE, TRUE)
         ELSE
           LET tok == SourceMap_lookup_token(Unwrap(secs[i].map),
                          (line - off[1]) % U32Modulus, (col - off[2]) % U32Modulus)
           IN IF tok # None THEN LookupOutcome(tok, i, under \/ u, FALSE)
              ELSE index_lookup_loop(secs, i + 1, line, col, checked, under \/ u)

\* SourceMapIndex::lookup_token
SourceMapIndex_lookup_token(secs, line, col, checked) ==
    index_lookup_loop(secs, 1, line, col, checked, FALSE)

\* DecodedMap::lookup_token
DecodedMap_lookup_token(k, m, secs, line, col, checked) ==
    IF k = "Regular"
    THEN LookupOutcome(SourceMap_lookup_token(m, line, col), 0, FALSE, FALSE)
    ELSE SourceMapIndex_lookup_token(secs, line, col, checked)

(***************************************************************************)
(* SourceMapBuilder (builder.rs), as the flatten and rewrite code uses it. *)
(* A builder is a record of the file, the tokens, the interned names and   *)
(* sources, and the contents list parallel to the sources.                 *)
(***************************************************************************)
SourceMapBuilder_new(file) ==
    [file |-> file, tokens |-> << >>, names |-> << >>, sources |-> << >>,
     source_contents |-> << >>]

\* the 0-based index of x in the sequence s, x being an element of s
IndexOf(s, x) == (CHOOSE i \in 1..Len(s) : s[i] = x) - 1

Contains(s, x) == \E i \in 1..Len(s) : s[i] = x

\* interning: the list with x appended unless it holds x already
Interned(s, x) == IF Contains(s, x) THEN s ELSE Append(s, x)

\* SourceMapBuilder::add: interns the strings, appends a raw token and returns
\* it (with the builder it leaves)
add(b, dst_line, dst_col, src_line, src_col, source, name) ==
    LET sources == IF IsSome(source) THEN Interned(b.sources, Unwrap(source))
                   ELSE b.sources
        names == IF IsSome(name) THEN Interned(b.names, Unwrap(name)) ELSE b.names
        raw == RawToken(dst_line, dst_col, src_line, src_col,
                        IF IsSome(source) THEN IndexOf(sources, Unwrap(source))
                        ELSE Sentinel,
                        IF IsSome(name) THEN IndexOf(names, Unwrap(name))
                        ELSE Sentinel)
    IN [b |-> [b EXCEPT !.sources = sources, !.names = names,
                        !.tokens = Append(b.tokens, raw)],
        raw |-> raw]

\* SourceMapBuilder::add_token: forwards the token's coordinates and strings,
\* dropping the name unless with_names
add_token(b, m, raw, with_names) ==
    add(b, raw.dst_line, raw.dst_col, raw.src_line, raw.src_col,
        Token_get_source(m, raw),
        IF with_names THEN Token_get_name(m, raw) ELSE None)

\* SourceMapBuilder::has_source_contents
has_source_contents(b, src_id) ==
    src_id < Len(b.source_contents) /\ IsSome(b.source_contents[src_id + 1])

\* SourceMapBuilder::set_source_contents: grows the contents list to the
\* length of the sources, then records the content at src_id; nothing is
\* recorded for an id that is no index of the list (the sentinel)
set_source_contents(b, src_id, contents) ==
    LET n == IF Len(b.sources) > Len(b.source_contents) THEN Len(b.sources)
             ELSE Len(b.source_contents)
        resized == [i \in 1..n |-> IF i <= Len(b.source_contents)
                                   THEN b.source_contents[i] ELSE None]
    IN [b EXCEPT !.source_contents =
           IF src_id < n THEN [resized EXCEPT ![src_id + 1] = contents]
           ELSE resized]

\* SourceMapBuilder::into_sourcemap
into_sourcemap(b) ==
    SourceMap_new(b.file, b.tokens, b.names, b.sources, Some(b.source_contents))

\* The outcome of flatten and rewrite: "Ok" with the map, "Err" with the error
\* kind, or "Panic" (an arithmetic overflow in a build that checks it).
Ok(m) == [status |-> "Ok", map |-> Some(m), error |-> None]
Err(e) == [status |-> "Err", map |-> None, error |-> Some(e)]
Panic == [status |-> "Panic", map |-> None, error |-> None]

\* the token loop of SourceMapIndex::flatten over the child map m of a section
\* at offset off, from token k (1-based) on; << >> stands for a panic
RECURSIVE flatten_tokens_overwrite(_, _, _, _, _)
flatten_tokens_overwrite(b, m, off, k, checked) ==
    IF k > Len(m.tokens) THEN Some(b)
    ELSE
      LET token == m.tokens[k]
          line == token.dst_line + off[1]
          col == token.dst_col + off[2]
      IN IF checked /\ (line > MaxU32 \/ col > MaxU32) THEN None
         ELSE
           LET r == add(b, line % U32Modulus, col % U32Modulus,
                        token.src_line, token.src_col,
                        Token_get_source(m, token), Token_get_name(m, token))
               b2 == set_source_contents(r.b, r.raw.src_id,
                                         get_source_contents(m, token.src_id))
           IN flatten_tokens_overwrite(b2, m, off, k + 1, checked)

RECURSIVE flatten_tokens(_, _, _, _, _)
flatten_tokens(b, m, off, k, checked) ==
    IF k > Len(m.tokens) THEN Some(b)
    ELSE
      LET token == m.tokens[k]
          line == token.dst_line + off[1]
          col == token.dst_col + off[2]
      IN IF checked /\ (line > MaxU32 \/ col > MaxU32) THEN None
         ELSE
           LET r == add(b, line % U32Modulus, col % U32Modulus,
                        token.src_line, token.src_col,
                        Token_get_source(m, token), Token_get_name(m, token))
               b2 == IF ~has_source_contents(r.b, r.raw.src_id)
                     THEN set_source_contents(r.b, r.raw.src_id,
                                              get_source_contents(m, token.src_id))
                     ELSE r.b
           IN flatten_tokens(b2, m, off, k + 1, checked)

\* the section loop of SourceMapIndex::flatten from section i (1-based) on
RECURSIVE flatten_sections(_, _, _, _)
flatten_sections(b, secs, i, checked) ==
    IF i > Len(secs) THEN Ok(into_sourcemap(b))
    ELSE IF secs[i].map = None THEN Err("CannotFlatten")
    ELSE LET b2 == flatten_tokens(b, Unwrap(secs[i].map), secs[i].offset, 1, checked)
         IN IF b2 = None THEN Panic
            ELSE flatten_sections(Unwrap(b2), secs, i + 1, checked)

\* SourceMapIndex::flatten
flatten(file, secs, checked) ==
    flatten_sections(SourceMapBuilder_new(file), secs, 1, checked)

(***************************************************************************)
(* The rewrite pipeline.                                                   *)
(***************************************************************************)
\* str::starts_with on source strings
StartsWith(str, prefix) ==
    Len(prefix) <= Len(str) /\ SubSeq(str, 1, Len(prefix)) = prefix

\* the `~` entry of strip_prefixes
Tilde == <<"~">>

\* utils::find_common_prefix: the longest string that is a prefix of every
\* input string; none if there is no input or that prefix is empty
find_common_prefix(strs) ==
    IF Len(strs) = 0 THEN None
    ELSE LET n == CHOOSE k \in 0..Len(strs[1]) :
                      /\ \A i \in 1..Len(strs) : StartsWith(strs[i], SubSeq(strs[1], 1, k))
                      /\ \A j \in (k + 1)..Len(strs[1]) :
                             \E i \in 1..Len(strs) :
                                 ~StartsWith(strs[i], SubSeq(strs[1], 1, j))
         IN IF n = 0 THEN None ELSE Some(SubSeq(strs[1], 1, n))

\* one source of SourceMapBuilder::strip_prefixes: the first prefix of the
\* list, from the k-th on, that the source starts with is removed
RECURSIVE strip_source(_, _, _)
strip_source(source, prefixes, k) ==
    IF k > Len(prefixes) THEN source
    ELSE IF StartsWith(source, prefixes[k])
    THEN SubSeq(source, Len(prefixes[k]) + 1, Len(source))
    ELSE strip_source(source, prefixes, k + 1)

\* SourceMapBuilder::strip_prefixes
strip_prefixes(b, prefixes) ==
    [b EXCEPT !.sources = [i \in 1..Len(b.sources) |->
                              strip_source(b.sources[i], prefixes, 1)]]

\* RewriteOptions; load_local_source_contents is false in every option of
\* the model
RewriteOptions(with_names, with_source_contents, strip) ==
    [with_names |-> with_names, with_source_contents |-> with_source_contents,
     load_local_source_contents |-> FALSE, strip_prefixes |-> strip]

\* the token loop of SourceMap::rewrite from token k (1-based) on
RECURSIVE rewrite_tokens_dedup(_, _, _, _)
rewrite_tokens_dedup(b, m, options, k) ==
    IF k > Len(m.tokens) THEN b
    ELSE
      LET token == m.tokens[k]
          seen == \E j \in 1..Len(b.tokens) :
                      /\ b.tokens[j].dst_line = token.dst_line
                      /\ b.tokens[j].dst_col = token.dst_col
          r == add_token(b, m, token, options.with_names)
          b2 == IF r.raw.src_id # Sentinel /\ options.with_source_contents
                   /\ ~has_source_contents(r.b, r.raw.src_id)
                THEN set_source_contents(r.b, r.raw.src_id,
                                         get_source_contents(m, token.src_id))
                ELSE r.b
      IN rewrite_tokens_dedup(IF seen THEN b ELSE b2, m, options, k + 1)

RECURSIVE rewrite_tokens(_, _, _, _)
rewrite_tokens(b, m, options, k) ==
    IF k > Len(m.tokens) THEN b
    ELSE
      LET token == m.tokens[k]
          r == add_token(b, m, token, options.with_names)
          b2 == IF r.raw.src_id # Sentinel /\ options.with_source_contents
                   /\ ~has_source_contents(r.b, r.raw.src_id)
                THEN set_source_contents(r.b, r.raw.src_id,
                                         get_source_contents(m, token.src_id))
                ELSE r.b
      IN rewrite_tokens(b2, m, options, k + 1)

\* the literal entries of strip_prefixes, in order
RECURSIVE literal_prefixes(_)
literal_prefixes(strip) ==
    IF strip = << >> THEN << >>
    ELSE IF Head(strip) = Tilde THEN literal_prefixes(Tail(strip))
    ELSE <<Head(strip)>> \o literal_prefixes(Tail(strip))

\* the prefixes SourceMap::rewrite strips: the literal ones, then the common
\* prefix of the sources of the map being rewritten if `~` is listed
rewrite_prefixes_builder_sources(m, b, options) ==
    LET need_common_prefix == Contains(options.strip_prefixes, Tilde)
        common == find_common_prefix(b.sources)
    IN literal_prefixes(options.strip_prefixes)
         \o (IF need_common_prefix /\ IsSome(common) THEN <<Unwrap(common)>> ELSE << >>)

rewrite_prefixes_always_common(m, b, options) ==
    LET common == find_common_prefix(m.sources)
    IN literal_prefixes(options.strip_prefixes)
         \o (IF IsSome(common) THEN <<Unwrap(common)>> ELSE << >>)

rewrite_prefixes(m, b, options) ==
    LET need_common_prefix == Contains(options.strip_prefixes, Tilde)
        common == find_common_prefix(m.sources)
    IN literal_prefixes(options.strip_prefixes)
         \o (IF need_common_prefix /\ IsSome(common) THEN <<Unwrap(common)>> ELSE << >>)

\* SourceMap::rewrite, for options with load_local_source_contents = false
\* (the branch that reads the file system is not taken)
rewrite(m, options) ==
    LET b == rewrite_tokens(SourceMapBuilder_new(m.file), m, options, 1)
        prefixes == rewrite_prefixes(m, b, options)
        stripped == IF prefixes # << >> THEN strip_prefixes(b, prefixes) ELSE b
    IN Ok(into_sourcemap(stripped))

\* SourceMapIndex::flatten_and_rewrite
flatten_and_rewrite(file, secs, options, checked) ==
    LET flat == flatten(file, secs, checked)
    IN IF flat.status = "Ok" THEN rewrite(Unwrap(flat.map), options) ELSE flat

(***************************************************************************)
(* Spec: a regular map built by SourceMap::new and queried by              *)
(* SourceMap::lookup_token.                                                *)
(***************************************************************************)
\* generated positions of the tokens, and the positions queried
DstLines == {0, 1}
DstCols == {0, 2}
QueryLines == {0, 1, 2}
QueryCols == {0, 1, 2, 3}

\* all sequences over S of length at most n
SeqsUpTo(S, n) == UNION {[1..k -> S] : k \in 0..n}

LookupTokens ==
    {RawToken(l, c, 0, 0, Sentinel, Sentinel) : l \in DstLines, c \in DstCols}

Init ==
    /\ pc = "new"
    /\ \E toks \in SeqsUpTo(LookupTokens, MaxTokens) :
           sm = SourceMap_new(None, toks, << >>, << >>, None)
    /\ sections = << >>
    /\ kind = "Regular"
    /\ arg = << >>
    /\ ret = None
    /\ iter = None

\* a call of SourceMap::lookup_token(line, col)
LookupToken(line, col) ==
    /\ pc' = "lookup_token"
    /\ arg' = <<line, col>>
    /\ ret' = SourceMap_lookup_token(sm, line, col)
    /\ UNCHANGED <<sm, sections, kind, iter>>

Next ==
    \E line \in QueryLines, col \in QueryCols : LookupToken(line, col)

Spec == Init /\ [][Next]_vars

\* the generated position of a raw token
Dst(raw) == <<raw.dst_line, raw.dst_col>>

\* the (1-based) tokens of sm at or before the position q
AtOrBefore(q) == {i \in 1..Len(sm.tokens) : PairLeq(Dst(sm.tokens[i]), q)}

\* C1: lookup_token(L, C) returns a token of the map at or before (L, C) such
\* that no token of the map lies strictly after it and still at or before
\* (L, C); it returns none exactly when no token is at or before (L, C).
C1_IndexCorrectness ==
    pc = "lookup_token" =>
        /\ (ret = None) <=> (AtOrBefore(arg) = {})
        /\ ret # None =>
              LET t == Unwrap(ret)
              IN /\ t.idx + 1 \in AtOrBefore(arg)
                 /\ t.raw = sm.tokens[t.idx + 1]
                 /\ \A i \in AtOrBefore(arg) :
                        PairLeq(Dst(sm.tokens[i]), Dst(t.raw))

\* a query strictly between two positions of the map resolved to a token
C1_Witness ==
    /\ pc = "lookup_token"
    /\ ret # None
    /\ PairLess(Dst(Unwrap(ret).raw), arg)
    /\ \E i \in 1..Len(sm.tokens) : PairLess(arg, Dst(sm.tokens[i]))

\* C2: among the tokens sharing the position lookup_token resolves to, the one
\* with the highest token index is returned; index entries with equal
\* positions are in token-list order.
C2_TiesFavorLater ==
    /\ \A j, k \in 1..Len(sm.index) :
           (j < k /\ sm.index[j][1] = sm.index[k][1]
                  /\ sm.index[j][2] = sm.index[k][2])
               => sm.index[j][3] < sm.index[k][3]
    /\ (pc = "lookup_token" /\ ret # None) =>
           \A i \in 1..Len(sm.tokens) :
               Dst(sm.tokens[i]) = Dst(Unwrap(ret).raw) => i - 1 <= Unwrap(ret).idx

\* a lookup resolved to a position that an earlier token of the list shares
C2_Witness ==
    /\ pc = "lookup_token"
    /\ ret # None
    /\ \E i \in 1..Len(sm.tokens) :
           /\ Dst(sm.tokens[i]) = Dst(Unwrap(ret).raw)
           /\ i - 1 < Unwrap(ret).idx

(***************************************************************************)
(* SpecIndex: a decoded document, either a regular map or an indexed map   *)
(* whose sections have their child maps attached and removed, queried by   *)
(* SourceMapIndex::lookup_token and DecodedMap::lookup_token.              *)
(***************************************************************************)
MaxSections == 2

EmptyMap == SourceMap_new(None, << >>, << >>, << >>, None)

\* the offsets of the sections and the child maps attached to them
SectionOffsets == {<<0, 0>>, <<0, 1>>, <<1, 0>>, <<1, 1>>}
IndexChildTokens ==
    {RawToken(0, 0, 0, 0, Sentinel, Sentinel), RawToken(0, 1, 0, 0, Sentinel, Sentinel),
     RawToken(1, 0, 0, 0, Sentinel, Sentinel)}
IndexChildMaps ==
    {SourceMap_new(None, toks, << >>, << >>, None) : toks \in SeqsUpTo(IndexChildTokens, 1)}
IndexSections ==
    {SourceMapSection_new(off, None, map) :
        off \in SectionOffsets, map \in {None} \cup {Some(m) : m \in IndexChildMaps}}

InitIndex ==
    /\ pc = "new"
    /\ kind \in {"Regular", "Index"}
    /\ IF kind = "Regular"
       THEN sm \in IndexChildMaps /\ sections = << >>
       ELSE sm = EmptyMap /\ sections \in SeqsUpTo(IndexSections, MaxSections)
    /\ arg = << >>
    /\ ret = None
    /\ iter = None

\* get_section_mut(i).set_sourcemap(map)
SetSourcemap(i, map) ==
    /\ kind = "Index"
    /\ pc \notin {"flatten", "flatten_and_rewrite"}
    /\ i < Len(sections)
    /\ sections' = [sections EXCEPT ![i + 1] = set_sourcemap(sections[i + 1], map)]
    /\ pc' = "set_sourcemap"
    /\ arg' = <<i>>
    /\ ret' = None
    /\ UNCHANGED <<sm, kind, iter>>

\* a call of SourceMapIndex::lookup_token(line, col)
IndexLookupToken(line, col, checked) ==
    /\ kind = "Index"
    /\ pc' = "index_lookup_token"
    /\ arg' = <<line, col>>
    /\ ret' = SourceMapIndex_lookup_token(sections, line, col, checked)
    /\ UNCHANGED <<sm, sections, kind, iter>>

\* a call of DecodedMap::lookup_token(line, col)
DecodedLookupToken(line, col, checked) ==
    /\ pc' = "decoded_lookup_token"
    /\ arg' = <<line, col>>
    /\ ret' = DecodedMap_lookup_token(kind, sm, sections, line, col, checked)
    /\ UNCHANGED <<sm, sections, kind, iter>>

NextIndex ==
    \/ \E i \in 0..(MaxSections - 1), map \in {None} \cup {Some(m) : m \in IndexChildMaps} :
           SetSourcemap(i, map)
    \/ \E line \in QueryLines, col \in QueryLines, checked \in BOOLEAN :
           IndexLookupToken(line, col, checked)
    \/ \E line \in QueryLines, col \in QueryLines, checked \in BOOLEAN :
           DecodedLookupToken(line, col, checked)

SpecIndex == InitIndex /\ [][NextIndex]_vars

\* what C3 describes: the first section, in order, that has an inline map, whose
\* offset is at or before (line, col) in both coordinates and whose child has
\* a token for (line - oL, col - oC)
RECURSIVE C3_Described(_, _, _, _)
C3_Described(secs, i, line, col) ==
    IF i > Len(secs) THEN [tok |-> None, section |-> 0]
    ELSE
      LET off == secs[i].offset
          tok == IF secs[i].map # None /\ off[1] <= line /\ off[2] <= col
                 THEN SourceMap_lookup_token(Unwrap(secs[i].map),
                                             line - off[1], col - off[2])
                 ELSE None
      IN IF tok # None THEN [tok |-> tok, section |-> i]
         ELSE C3_Described(secs, i + 1, line, col)

\* C3: SourceMapIndex::lookup_token returns the result of the first section
\* that has an inline map, lies at or before the query and has a token for the
\* query shifted by its offset; none only if no such section yields a token.
C3_IndexLookup ==
    (pc = "index_lookup_token" /\ ~ret.panic) =>
        /\ ret.tok = C3_Described(sections, 1, arg[1], arg[2]).tok
        /\ ret.section = C3_Described(sections, 1, arg[1], arg[2]).section

\* C4: a lookup in an indexed map or a decoded document completes with a token
\* or none, and never evaluates `line - off_line` or `col - off_col` with an
\* offset greater than the query coordinate.
C4_LookupNeverFails ==
    pc \in {"index_lookup_token", "decoded_lookup_token"} =>
        ~ret.panic /\ ~ret.underflow

(***************************************************************************)
(* SpecFlatten: an indexed map whose sections have their child maps        *)
(* attached and removed, and which is then consumed by flatten or by       *)
(* flatten_and_rewrite.                                                    *)
(***************************************************************************)
\* the source strings, names and contents of the child maps
SrcAB == <<"a", "b">>
SrcB == <<"b">>

\* The child maps: one source without content; the same source with content;
\* two sources of which the second is SrcAB again, with another content; a
\* token without source at the greatest line and column; a map of no tokens.
FlattenChildMaps ==
    {SourceMap_new(None, <<RawToken(0, 0, 1, 2, 0, 0)>>, <<"n">>, <<SrcAB>>, None),
     SourceMap_new(None, <<RawToken(0, 0, 1, 2, 0, 0)>>, <<"n">>, <<SrcAB>>,
                   Some(<<Some("X")>>)),
     SourceMap_new(None, <<RawToken(0, 0, 3, 4, 0, Sentinel),
                           RawToken(0, 1, 5, 6, 1, Sentinel)>>,
                   << >>, <<SrcB, SrcAB>>, Some(<<None, Some("Y")>>)),
     SourceMap_new(None, <<RawToken(MaxU32, MaxU32, 0, 0, Sentinel, 0)>>, <<"m">>,
                   << >>, None),
     EmptyMap}
FlattenOffsets == {<<0, 0>>, <<0, 1>>, <<1, 0>>}
FlattenMapOptions == {None} \cup {Some(m) : m \in FlattenChildMaps}
FlattenSections ==
    {SourceMapSection_new(off, None, map) :
        off \in FlattenOffsets, map \in FlattenMapOptions}

\* the options of rewrite
StripLists == {<< >>, <<Tilde>>, <<(<<"a">>)>>, <<Tilde, <<"a">> >>, <<(<<"a">>), Tilde>>}
AllRewriteOptions ==
    {RewriteOptions(wn, wc, strip) : wn \in BOOLEAN, wc \in BOOLEAN, strip \in StripLists}

InitFlatten ==
    /\ pc = "new"
    /\ kind = "Index"
    /\ sm = EmptyMap
    /\ sections \in SeqsUpTo(FlattenSections, MaxSections)
    /\ arg = << >>
    /\ ret = None
    /\ iter = None

\* a call of SourceMapIndex::flatten(), which consumes the indexed map
Flatten(checked) ==
    /\ kind = "Index"
    /\ pc \notin {"flatten", "flatten_and_rewrite"}
    /\ pc' = "flatten"
    /\ arg' = << >>
    /\ ret' = flatten(None, sections, checked)
    /\ UNCHANGED <<sm, sections, kind, iter>>

\* a call of SourceMapIndex::flatten_and_rewrite(options), which consumes the
\* indexed map
FlattenAndRewrite(options, checked) ==
    /\ kind = "Index"
    /\ pc \notin {"flatten", "flatten_and_rewrite"}
    /\ pc' = "flatten_and_rewrite"
    /\ arg' = <<options>>
    /\ ret' = flatten_and_rewrite(None, sections, options, checked)
    /\ UNCHANGED <<sm, sections, kind, iter>>

NextFlatten ==
    \/ \E i \in 0..(MaxSections - 1), map \in FlattenMapOptions : SetSourcemap(i, map)
    \/ \E checked \in BOOLEAN : Flatten(checked)
    \/ \E options \in AllRewriteOptions, checked \in BOOLEAN :
           FlattenAndRewrite(options, checked)

SpecFlatten == InitFlatten /\ [][NextFlatten]_vars

AllInline == \A i \in 1..Len(sections) : sections[i].map # None

\* C5: flatten returns a regular map if and only if every section holds an
\* inline child map, and fails with CannotFlatten if a section holds none.
C5_FlattenIffAllInline ==
    pc = "flatten" =>
        /\ (ret.status = "Ok") <=> AllInline
        /\ ~AllInline => ret = Err("CannotFlatten")

\* what a token of a map says, with its strings in place of their ids
Described(m, raw) ==
    [dst_line |-> raw.dst_line, dst_col |-> raw.dst_col,
     src_line |-> raw.src_line, src_col |-> raw.src_col,
     source |-> Token_get_source(m, raw), name |-> Token_get_name(m, raw)]

\* the tokens of the child maps in section and token order, every one with
\* its position increased by the offset of its section
RECURSIVE ShiftedTokens(_, _)
ShiftedTokens(secs, i) ==
    IF i > Len(secs) THEN << >>
    ELSE LET m == Unwrap(secs[i].map)
         IN [k \in 1..Len(m.tokens) |->
                [Described(m, m.tokens[k]) EXCEPT
                    !.dst_line = m.tokens[k].dst_line + secs[i].offset[1],
                    !.dst_col = m.tokens[k].dst_col + secs[i].offset[2]]]
            \o ShiftedTokens(secs, i + 1)

\* C6: when flatten succeeds, the tokens of its map are the child tokens in
\* section and token order, with dst_line and dst_col increased by the offset
\* of the section without wrap-around and everything else unchanged.
C6_FlattenShiftsTokens ==
    (pc = "flatten" /\ ret.status = "Ok") =>
        LET m == Unwrap(ret.map)
        IN [k \in 1..Len(m.tokens) |-> Described(m, m.tokens[k])]
               = ShiftedTokens(sections, 1)

\* the references to sources in section and token order: the source string of
\* each child token and the content its child map holds for it
RECURSIVE Occurrences(_, _)
Occurrences(secs, i) ==
    IF i > Len(secs) THEN << >>
    ELSE LET m == Unwrap(secs[i].map)
         IN [k \in 1..Len(m.tokens) |->
                [source |-> Token_get_source(m, m.tokens[k]),
                 content |-> get_source_contents(m, m.tokens[k].src_id)]]
            \o Occurrences(secs, i + 1)

Min(S) == CHOOSE x \in S : \A y \in S : x <= y

\* the content of the first reference to the source s
FirstContent(occs, s) ==
    occs[Min({k \in 1..Len(occs) : occs[k].source = Some(s)})].content

\* the content of the first reference to the source s that has a content
FirstPresentContent(occs, s) ==
    LET with == {k \in 1..Len(occs) : occs[k].source = Some(s) /\ occs[k].content # None}
    IN IF with = {} THEN None ELSE occs[Min(with)].content

\* C7 as stated: the content of each source of the flattened map is the one
\* of the first section and token that references the source.
C7_ContentOfFirstOccurrence ==
    (pc = "flatten" /\ ret.status = "Ok") =>
        LET m == Unwrap(ret.map)
        IN \A i \in 1..Len(m.sources) :
               get_source_contents(m, i - 1) = FirstContent(Occurrences(sections, 1), m.sources[i])

\* C7 amended: the content of each source of the flattened map is the one of
\* the first section and token that references the source and has a content
\* for it, and none if no reference has one.
C7_ContentOfFirstPresent ==
    (pc = "flatten" /\ ret.status = "Ok") =>
        LET m == Unwrap(ret.map)
        IN \A i \in 1..Len(m.sources) :
               get_source_contents(m, i - 1)
                   = FirstPresentContent(Occurrences(sections, 1), m.sources[i])

\* flatten succeeded on two sections that reference one source with two
\* different contents, and the first one was kept
C7_Witness ==
    /\ pc = "flatten"
    /\ ret.status = "Ok"
    /\ LET occs == Occurrences(sections, 1)
           m == Unwrap(ret.map)
       IN \E j, k \in 1..Len(occs) :
              /\ j < k
              /\ occs[j].source = occs[k].source
              /\ occs[j].source # None
              /\ occs[j].content # None /\ occs[k].content # None
              /\ occs[j].content # occs[k].content
              /\ \E i \in 1..Len(m.sources) :
                     /\ Some(m.sources[i]) = occs[j].source
                     /\ get_source_contents(m, i - 1) = occs[j].content

\* C10: the sources of the map flatten_and_rewrite returns are pairwise
\* different.
C10_SourcesUnique ==
    (pc = "flatten_and_rewrite" /\ ret.status = "Ok") =>
        LET m == Unwrap(ret.map)
        IN \A i, j \in 1..Len(m.sources) : m.sources[i] = m.sources[j] => i = j

\* the generated positions, after the shift and as u32 values, of the tokens
\* of every section in section and token order
ShiftedPositions(secs) ==
    LET shifted == ShiftedTokens(secs, 1)
    IN [k \in 1..Len(shifted) |->
           <<shifted[k].dst_line % U32Modulus, shifted[k].dst_col % U32Modulus>>]

\* the shifted positions of the tokens of section i (1-based)
SectionPositions(secs, i) ==
    LET ps == ShiftedPositions(<<secs[i]>>)
    IN {ps[k] : k \in 1..Len(ps)}

\* the positions that tokens of two different sections are shifted to
CollidingPositions(secs) ==
    {p \in UNION {SectionPositions(secs, i) : i \in 1..Len(secs)} :
        \E i, j \in 1..Len(secs) :
            i # j /\ p \in SectionPositions(secs, i) /\ p \in SectionPositions(secs, j)}

MaxRewriteTokens == 2

\* the sources lists of the maps: each of at most two of three strings
RewriteSources == {SrcAB, SrcB, <<"a", "a">>}
RewriteSourceLists ==
    {<< >>} \cup {<<s>> : s \in RewriteSources}
            \cup {<<s, t>> : s \in RewriteSources, t \in RewriteSources}
RewriteTokens ==
    {RawToken(0, 0, 0, 0, 0, 0), RawToken(0, 0, 0, 0, 0, Sentinel),
     RawToken(0, 0, 0, 0, 1, Sentinel), RawToken(0, 0, 0, 0, Sentinel, Sentinel)}

\* the map of the scenario of the specification: two tokens, the sources
\* /a/b/x.js and /a/b/y.js
ScenarioSources ==
    << <<"/", "a", "/", "b", "/", "x", ".", "j", "s">>,
       <<"/", "a", "/", "b", "/", "y", ".", "j", "s">> >>
ScenarioMap ==
    SourceMap_new(None, <<RawToken(0, 0, 0, 0, 0, Sentinel), RawToken(0, 1, 0, 0, 1, Sentinel)>>,
                  << >>, ScenarioSources, None)

InitRewrite ==
    /\ pc = "new"
    /\ kind = "Regular"
    /\ \/ sm = ScenarioMap
       \/ \E sources \in RewriteSourceLists :
          \E contents \in {None} \cup
                 {Some(c) : c \in {d \in [1..Len(sources) -> {None, Some("X")}] :
                                      \E i \in 1..Len(sources) : d[i] # None}} :
          \E toks \in SeqsUpTo(RewriteTokens, MaxRewriteTokens) :
              sm = SourceMap_new(Some("f"), toks, <<"n">>, sources, contents)
    /\ sections = << >>
    /\ arg = << >>
    /\ ret = None
    /\ iter = None

\* a call of SourceMap::rewrite(options) on the map, whose result becomes the
\* map; arg keeps the options and the map that was rewritten
Rewrite(options) ==
    /\ kind = "Regular"
    /\ pc' = "rewrite"
    /\ arg' = [options |-> options, self |-> sm]
    /\ ret' = rewrite(sm, options)
    /\ sm' = Unwrap(ret'.map)
    /\ UNCHANGED <<sections, kind, iter>>

NextRewrite == \E options \in AllRewriteOptions : Rewrite(options)

SpecRewrite == InitRewrite /\ [][NextRewrite]_vars

\* C8 as stated: rewriting the result of a rewrite with the same options
\* returns that result again, whatever the options.
C8_RewriteIdempotent ==
    pc = "rewrite" => rewrite(sm, arg.options) = Ok(sm)

\* C8 amended: rewriting the result of a rewrite with the same options returns
\* that result again when strip_prefixes is empty.
C8_RewriteIdempotentNoStrip ==
    (pc = "rewrite" /\ arg.options.strip_prefixes = << >>) =>
        rewrite(sm, arg.options) = Ok(sm)

\* a rewrite without prefixes changed a map with tokens, names and contents
C8_Witness ==
    /\ pc = "rewrite"
    /\ arg.options.strip_prefixes = << >>
    /\ sm # arg.self
    /\ Len(sm.tokens) > 1
    /\ Len(sm.sources) > 0
    /\ \E i \in 1..Len(sm.sources_content) : sm.sources_content[i] # None

\* the sources a rewrite interns: the source strings of the tokens of m in
\* order of first reference
RECURSIVE ReferencedSources(_, _)
ReferencedSources(m, k) ==
    IF k = 0 THEN << >>
    ELSE LET before == ReferencedSources(m, k - 1)
             source == Token_get_source(m, m.tokens[k])
         IN IF IsSome(source) THEN Interned(before, Unwrap(source)) ELSE before

\* the string s without its first n characters
DropChars(s, n) == SubSeq(s, n + 1, Len(s))

\* the length of the longest common prefix of the strings of a sequence
CommonLen(strs) ==
    IF Len(strs) = 0 THEN 0
    ELSE CHOOSE n \in 0..Len(strs[1]) :
             /\ \A i \in 1..Len(strs) :
                    Len(strs[i]) >= n /\ SubSeq(strs[i], 1, n) = SubSeq(strs[1], 1, n)
             /\ \A k \in (n + 1)..Len(strs[1]) :
                    \E i \in 1..Len(strs) :
                        Len(strs[i]) < k \/ SubSeq(strs[i], 1, k) # SubSeq(strs[1], 1, k)

\* the common prefix of the strings as a list of prefixes: empty if there is
\* no common prefix
CommonPrefixEntry(strs) ==
    IF CommonLen(strs) = 0 THEN << >> ELSE <<SubSeq(strs[1], 1, CommonLen(strs))>>

NotTilde(prefix) == prefix # Tilde

\* C9 as stated: a `~` in strip_prefixes adds the longest common prefix of the
\* sources the rewritten map holds at that point (those a token references)
\* to the prefixes to strip, so that with `~` alone every source of the result
\* is such a source without that prefix.
C9_TildeStripsPrefixOfBuiltSources ==
    (pc = "rewrite" /\ Contains(arg.options.strip_prefixes, Tilde)) =>
        LET built == ReferencedSources(arg.self, Len(arg.self.tokens))
            prefixes == SelectSeq(arg.options.strip_prefixes, NotTilde)
                            \o CommonPrefixEntry(built)
        IN /\ sm.sources = [i \in 1..Len(built) |-> strip_source(built[i], prefixes, 1)]
           /\ arg.options.strip_prefixes = <<Tilde>> =>
                  sm.sources = [i \in 1..Len(built) |->
                                   DropChars(built[i], CommonLen(built))]

\* C9 amended: a `~` in strip_prefixes adds the longest common prefix of all
\* sources of the map that is rewritten, referenced by a token or not, after
\* the literal prefixes, so that with `~` alone every source of the result is
\* a referenced source without that prefix.
C9_TildeStripsPrefixOfAllSources ==
    (pc = "rewrite" /\ Contains(arg.options.strip_prefixes, Tilde)) =>
        LET built == ReferencedSources(arg.self, Len(arg.self.tokens))
            prefixes == SelectSeq(arg.options.strip_prefixes, NotTilde)
                            \o CommonPrefixEntry(arg.self.sources)
        IN /\ sm.sources = [i \in 1..Len(built) |-> strip_source(built[i], prefixes, 1)]
           /\ arg.options.strip_prefixes = <<Tilde>> =>
                  sm.sources = [i \in 1..Len(built) |->
                                   DropChars(built[i], CommonLen(arg.self.sources))]

\* the scenario: /a/b/x.js and /a/b/y.js rewritten with `~` to x.js and y.js
C9_Witness ==
    /\ pc = "rewrite"
    /\ arg.options.strip_prefixes = <<Tilde>>
    /\ arg.self.sources = ScenarioSources
    /\ sm.sources = << <<"x", ".", "j", "s">>, <<"y", ".", "j", "s">> >>

(***************************************************************************)
(* Minified source text and the queries that read it.                      *)
(* A character is the string that names it.  NonBmp is a code point        *)
(* outside the basic plane (4 bytes in UTF-8, a surrogate pair in UTF-16), *)
(* TwoByte a letter of 2 bytes in UTF-8 and one unit in UTF-16; every      *)
(* other character is ASCII.                                               *)
(***************************************************************************)
NonBmp == "U+1F600"
TwoByte == "U+00E9"

\* char::len_utf8 and char::len_utf16
len_utf8(c) == IF c = NonBmp THEN 4 ELSE IF c = TwoByte THEN 2 ELSE 1
len_utf16(c) == IF c = NonBmp THEN 2 ELSE 1

\* str::len: the length in bytes
RECURSIVE str_len(_)
str_len(str) == IF str = << >> THEN 0 ELSE len_utf8(Head(str)) + str_len(Tail(str))

\* str::is_char_boundary
RECURSIVE is_char_boundary(_, _)
is_char_boundary(str, off) ==
    IF off = 0 THEN TRUE
    ELSE IF off < 0 \/ str = << >> THEN FALSE
    ELSE is_char_boundary(Tail(str), off - len_utf8(Head(str)))

\* &str[off..] for a char boundary off
RECURSIVE slice_from(_, _)
slice_from(str, off) ==
    IF off <= 0 \/ str = << >> THEN str
    ELSE slice_from(Tail(str), off - len_utf8(Head(str)))

\* &str[..off] for a char boundary off
slice_to(str, off) == SubSeq(str, 1, Len(str) - Len(slice_from(str, off)))

\* str::lines: the text split at line feeds, a carriage return before the line
\* feed dropped, and no line after a final line feed
RECURSIVE split_lines(_, _)
split_lines(str, cur) ==
    IF str = << >> THEN (IF cur = << >> THEN << >> ELSE <<cur>>)
    ELSE IF Head(str) = "\n"
    THEN <<(IF cur # << >> /\ cur[Len(cur)] = "\r"
            THEN SubSeq(cur, 1, Len(cur) - 1) ELSE cur)>>
         \o split_lines(Tail(str), << >>)
    ELSE split_lines(Tail(str), Append(cur, Head(str)))

lines(source) == split_lines(source, << >>)

\* lines_iter.skip(n).next()
nth_line(source, n) ==
    IF n < Len(lines(source)) THEN Some(lines(source)[n + 1]) ELSE None

\* The identifier scanner (utils.rs): the characters that start an identifier
\* and those that continue one.
IdentifierStart == {"a", "b", "c", "f", "i", "n", "o", "t", "u", "$", "_", TwoByte}
IdentifierContinue == IdentifierStart \cup {"0", "1"}

\* utils::is_valid_javascript_identifier
is_valid_javascript_identifier(s) ==
    /\ s # << >>
    /\ s[1] \in IdentifierStart
    /\ \A i \in 2..Len(s) : s[i] \in IdentifierContinue

\* utils::get_javascript_token: the identifier a slice starts with
get_javascript_token(slice) ==
    IF slice # << >> /\ slice[1] \in IdentifierStart
    THEN LET n == CHOOSE k \in 1..Len(slice) :
                      /\ \A i \in 1..k : slice[i] \in IdentifierContinue
                      /\ k < Len(slice) => slice[k + 1] \notin IdentifierContinue
         IN Some(SubSeq(slice, 1, n))
    ELSE None

\* usize: its number of values and the all-ones value !0
UsizeModulus == U32Modulus * U32Modulus
MaxUsize == UsizeModulus - 1

\* the scan of Token::get_minified_name from the start of the line to the
\* UTF-16 column dst_col: the byte offset `off` it ends with
RECURSIVE minified_name_offset_floor(_, _, _, _)
minified_name_offset_floor(chars, dst_col, off, idx) ==
    IF chars = << >> \/ idx + len_utf16(Head(chars)) > dst_col THEN off
    ELSE minified_name_offset_floor(Tail(chars), dst_col, off + len_utf8(Head(chars)),
                                    idx + len_utf16(Head(chars)))

RECURSIVE minified_name_offset(_, _, _, _)
minified_name_offset(chars, dst_col, off, idx) ==
    IF chars = << >> \/ idx >= dst_col THEN off
    ELSE minified_name_offset(Tail(chars), dst_col, off + len_utf8(Head(chars)),
                              idx + len_utf16(Head(chars)))

\* Token::get_minified_name, with the byte offset it computed
Token_get_minified_name(raw, source) ==
    LET line == nth_line(source, raw.dst_line)
    IN IF IsSome(line)
       THEN LET source_line == Unwrap(line)
                off == minified_name_offset(source_line, raw.dst_col, 0, 0)
            IN [name |-> get_javascript_token(slice_from(source_line, off)),
                line |-> line, off |-> Some(off)]
       ELSE [name |-> None, line |-> None, off |-> None]

\* ReverseOriginalTokenIter::new
ReverseOriginalTokenIter_new(m, line, col, source) ==
    [token |-> SourceMap_lookup_token(m, line, col),
     source |-> source,
     source_line |-> None]

\* the scan of ReverseOriginalTokenIter::next from the start of the line
RECURSIVE uncached_byte_offset(_, _, _, _)
uncached_byte_offset(chars, dst_col, off, idx) ==
    IF chars = << >> \/ idx >= dst_col THEN off
    ELSE uncached_byte_offset(Tail(chars), dst_col, off + len_utf8(Head(chars)),
                              idx + len_utf16(Head(chars)))

\* the move of ReverseOriginalTokenIter::next backward from the remembered
\* byte offset, over the characters `chars` before it
RECURSIVE cached_byte_offset_stay(_, _, _, _)
cached_byte_offset_stay(chars, chars_to_move, new_offset, idx) == new_offset

RECURSIVE cached_byte_offset(_, _, _, _)
cached_byte_offset(chars, chars_to_move, new_offset, idx) ==
    IF chars = << >> \/ idx >= chars_to_move THEN new_offset
    ELSE LET c == chars[Len(chars)]
         IN cached_byte_offset(SubSeq(chars, 1, Len(chars) - 1), chars_to_move,
                               new_offset - len_utf8(c), idx + len_utf16(c))

\* What a call of next leaves: the iterator, the item returned (none at the
\* end), whether the call panicked, and what it computed on the way (whether
\* it used the remembered line, whether the subtraction underflowed, the line
\* and the byte offset).
NextOutcome(it, item, panic, cached, underflow, source_line, byte_offset) ==
    [iter |-> it, item |-> item, panic |-> panic, cached |-> cached,
     underflow |-> underflow, source_line |-> source_line,
     byte_offset |-> byte_offset]

\* ReverseOriginalTokenIter::next; `checked` says whether the build panics on
\* arithmetic overflow
ReverseOriginalTokenIter_next(m, it, checked) ==
    IF it.token = None
    THEN NextOutcome(it, None, FALSE, FALSE, FALSE, << >>, 0)
    ELSE
      LET token == Unwrap(it.token)
          moved == [it EXCEPT !.token = IF token.idx > 0
                                        THEN get_token(m, token.idx - 1) ELSE None]
          dst_line == token.raw.dst_line
          dst_col == token.raw.dst_col
          hit == IsSome(it.source_line) /\ Unwrap(it.source_line).dst_line = dst_line
          found == nth_line(it.source, dst_line)
          source_line == IF hit THEN Unwrap(it.source_line).source_line
                         ELSE IF IsSome(found) THEN Unwrap(found) ELSE << >>
          last_char_offset == IF hit THEN Unwrap(it.source_line).last_char_offset
                              ELSE MaxUsize
          last_byte_offset == IF hit THEN Unwrap(it.source_line).last_byte_offset
                              ELSE MaxUsize
          cached == last_byte_offset # MaxUsize
          underflow == cached /\ last_char_offset < dst_col
          chars_to_move == (last_char_offset - dst_col) % UsizeModulus
          bad_prefix == cached /\ ~is_char_boundary(source_line, last_byte_offset)
          byte_offset ==
              IF ~cached THEN uncached_byte_offset(source_line, dst_col, 0, 0)
              ELSE cached_byte_offset(slice_to(source_line, last_byte_offset),
                                      chars_to_move, last_byte_offset, 0)
          remembered == [source_line |-> source_line, dst_line |-> dst_line,
                         last_char_offset |-> dst_col,
                         last_byte_offset |-> byte_offset]
      IN IF (underflow /\ checked) \/ bad_prefix
         THEN NextOutcome(moved, None, TRUE, cached, underflow, source_line, 0)
         ELSE IF byte_offset >= str_len(source_line)
         THEN NextOutcome([moved EXCEPT !.source_line = None],
                          Some([token |-> token, identifier |-> None]),
                          FALSE, cached, underflow, source_line, byte_offset)
         ELSE IF ~is_char_boundary(source_line, byte_offset)
         THEN NextOutcome([moved EXCEPT !.source_line = Some(remembered)], None,
                          TRUE, cached, underflow, source_line, byte_offset)
         ELSE NextOutcome([moved EXCEPT !.source_line = Some(remembered)],
                          Some([token |-> token,
                                identifier |-> get_javascript_token(
                                    slice_from(source_line, byte_offset))]),
                          FALSE, cached, underflow, source_line, byte_offset)

\* the number of tokens get_original_function_name walks over at most
TakeLimit == 1000

\* Take::next over the reverse iterator: n counts the items taken so far
take_next(m, it, n, checked) ==
    IF n >= TakeLimit
    THEN [step |-> NextOutcome(it, None, FALSE, FALSE, FALSE, << >>, 0), n |-> n]
    ELSE [step |-> ReverseOriginalTokenIter_next(m, it, checked), n |-> n + 1]

\* the identifier `function`
Keyword == <<"f", "u", "n", "c", "t", "i", "o", "n">>

\* the outcome of get_original_function_name: a name or none, or a panic
Returned(name) == [panic |-> FALSE, name |-> name]
Panicked == [panic |-> TRUE, name |-> None]

\* The loop of get_original_function_name over the peekable iterator: it is
\* the inner iterator, n the number of items taken from it, and peeked the
\* item that peek() took from it ahead of next(), if any.
RECURSIVE function_name_loop_any(_, _, _, _, _, _)
function_name_loop_any(m, minified_name, it, n, peeked, checked) ==
    LET cur == IF IsSome(peeked) THEN Unwrap(peeked) ELSE take_next(m, it, n, checked)
    IN IF cur.step.panic THEN Panicked
       ELSE IF cur.step.item = None THEN Returned(None)
       ELSE
         LET item == Unwrap(cur.step.item)
         IN IF item.identifier = Some(minified_name)
            THEN LET ahead == take_next(m, cur.step.iter, cur.n, checked)
                 IN IF ahead.step.panic THEN Panicked
                    ELSE IF ahead.step.item # None
                    THEN Returned(Token_get_name(m, item.token.raw))
                    ELSE function_name_loop_any(m, minified_name, ahead.step.iter,
                                                ahead.n, Some(ahead), checked)
            ELSE function_name_loop_any(m, minified_name, cur.step.iter, cur.n,
                                        None, checked)

RECURSIVE function_name_loop(_, _, _, _, _, _)
function_name_loop(m, minified_name, it, n, peeked, checked) ==
    LET cur == IF IsSome(peeked) THEN Unwrap(peeked) ELSE take_next(m, it, n, checked)
    IN IF cur.step.panic THEN Panicked
       ELSE IF cur.step.item = None THEN Returned(None)
       ELSE
         LET item == Unwrap(cur.step.item)
         IN IF item.identifier = Some(minified_name)
            THEN LET ahead == take_next(m, cur.step.iter, cur.n, checked)
                 IN IF ahead.step.panic THEN Panicked
                    ELSE IF ahead.step.item # None
                            /\ Unwrap(ahead.step.item).identifier = Some(Keyword)
                    THEN Returned(Token_get_name(m, item.token.raw))
                    ELSE function_name_loop(m, minified_name, ahead.step.iter,
                                            ahead.n, Some(ahead), checked)
            ELSE function_name_loop(m, minified_name, cur.step.iter, cur.n,
                                    None, checked)

\* SourceMap::get_original_function_name
get_original_function_name(m, line, col, minified_name, source, checked) ==
    IF ~is_valid_javascript_identifier(minified_name) THEN Returned(None)
    ELSE function_name_loop(m, minified_name,
                            ReverseOriginalTokenIter_new(m, line, col, source),
                            0, None, checked)

(***************************************************************************)
(* SpecName: a regular map built by SourceMap::new, with its tokens in any *)
(* order, read together with a minified source text: by                    *)
(* Token::get_minified_name, by get_original_function_name, and by a       *)
(* reverse iterator that is created and then advanced step by step.        *)
(***************************************************************************)
MaxNameTokens == 3

\* `function b`, a line end, and a line of a two-byte letter, a code point
\* outside the basic plane and `b`
TwoLineText ==
    Keyword \o <<" ", "b", "\r", "\n", TwoByte, NonBmp, "b">>

\* `function a(){}function b(){}`
ScenarioText ==
    Keyword \o <<" ", "a", "(", ")", "{", "}">>
        \o Keyword \o <<" ", "b", "(", ")", "{", "}">>

NameSources == {TwoLineText, ScenarioText}
NameNames == <<"original_a", "original_b">>

\* the tokens of the maps: on line 0 at the keyword and at the name after it,
\* on line 1 at every column of the line
NameTokens ==
    {RawToken(0, 0, 0, 0, Sentinel, Sentinel), RawToken(0, 9, 0, 0, Sentinel, 1),
     RawToken(1, 0, 0, 0, Sentinel, 0), RawToken(1, 1, 0, 0, Sentinel, Sentinel),
     RawToken(1, 2, 0, 0, Sentinel, Sentinel), RawToken(1, 3, 0, 0, Sentinel, 0)}

\* the map of the function-name scenario, and the same text with the tokens
\* on the second keyword and on the name that follows it
ScenarioNameMap ==
    SourceMap_new(None, <<RawToken(0, 9, 0, 0, Sentinel, 0),
                          RawToken(0, 22, 0, 0, Sentinel, 1)>>,
                  NameNames, << >>, None)
KeywordTokenMap ==
    SourceMap_new(None, <<RawToken(0, 14, 0, 0, Sentinel, Sentinel),
                          RawToken(0, 23, 0, 0, Sentinel, 1)>>,
                  NameNames, << >>, None)

\* the positions queried and the minified names asked for
NameQueries == {<<0, 0>>, <<0, 9>>, <<0, 22>>, <<0, 23>>, <<1, 1>>, <<1, 3>>}
MinifiedNames == {<<"b">>, <<"a">>, <<"1">>}

InitName ==
    /\ pc = "new"
    /\ \/ \E toks \in SeqsUpTo(NameTokens, MaxNameTokens) :
              sm = SourceMap_new(None, toks, NameNames, << >>, None)
       \/ sm \in {ScenarioNameMap, KeywordTokenMap}
    /\ sections = << >>
    /\ kind = "Regular"
    /\ arg = << >>
    /\ ret = None
    /\ iter = None

\* a call of get_minified_name(source) on the token idx of the map; the
\* calls leave the map as it is, so each behaviour makes one on the map as
\* constructed
GetMinifiedName(idx, source) ==
    /\ pc = "new"
    /\ idx < Len(sm.tokens)
    /\ pc' = "get_minified_name"
    /\ arg' = [idx |-> idx, source |-> source]
    /\ ret' = Token_get_minified_name(sm.tokens[idx + 1], source)
    /\ UNCHANGED <<sm, sections, kind, iter>>

\* a call of get_original_function_name
GetOriginalFunctionName(line, col, minified_name, source, checked) ==
    /\ pc = "new"
    /\ pc' = "get_original_function_name"
    /\ arg' = [line |-> line, col |-> col, minified_name |-> minified_name,
               source |-> source, checked |-> checked]
    /\ ret' = get_original_function_name(sm, line, col, minified_name, source, checked)
    /\ UNCHANGED <<sm, sections, kind, iter>>

\* ReverseOriginalTokenIter::new(sm, line, col, source)
NewIter(line, col, source) ==
    /\ pc = "new"
    /\ pc' = "new_iter"
    /\ arg' = [line |-> line, col |-> col, source |-> source]
    /\ ret' = None
    /\ iter' = Some(ReverseOriginalTokenIter_new(sm, line, col, source))
    /\ UNCHANGED <<sm, sections, kind>>

\* a call of next() on the iterator; nothing is called after a panic, and the
\* build is the same in every call
IterNext(checked) ==
    /\ iter # None
    /\ pc = "next" => (~ret.panic /\ arg.checked = checked)
    /\ pc' = "next"
    /\ arg' = [checked |-> checked]
    /\ ret' = ReverseOriginalTokenIter_next(sm, Unwrap(iter), checked)
    /\ iter' = Some(ret'.iter)
    /\ UNCHANGED <<sm, sections, kind>>

NextName ==
    \/ \E idx \in 0..(MaxNameTokens - 1), source \in NameSources :
           GetMinifiedName(idx, source)
    \/ \E q \in NameQueries, minified_name \in MinifiedNames, source \in NameSources,
          checked \in BOOLEAN :
           GetOriginalFunctionName(q[1], q[2], minified_name, source, checked)
    \/ \E q \in NameQueries, source \in NameSources : NewIter(q[1], q[2], source)
    \/ \E checked \in BOOLEAN : IterNext(checked)

SpecName == InitName /\ [][NextName]_vars

\* the items a reverse iterator yields, one after the other, until it ends,
\* panics or has yielded TakeLimit items
RECURSIVE Visited(_, _, _, _)
Visited(m, it, n, checked) ==
    LET r == take_next(m, it, n, checked)
    IN IF r.step.panic \/ r.step.item = None THEN << >>
       ELSE <<Unwrap(r.step.item)>> \o Visited(m, r.step.iter, r.n, checked)

\* the items visited by the call of get_original_function_name in arg
VisitedByCall ==
    Visited(sm, ReverseOriginalTokenIter_new(sm, arg.line, arg.col, arg.source),
            0, arg.checked)

\* the tokens of the map are in the order of their generated positions
TokensInPositionOrder ==
    \A i, j \in 1..Len(sm.tokens) :
        i < j => PairLeq(Dst(sm.tokens[i]), Dst(sm.tokens[j]))

\* the visit starts at lookup_token(line, col) and goes on to the token with
\* index one less
VisitsDownward(items) ==
    /\ items # << >> =>
           Some(items[1].token) = SourceMap_lookup_token(sm, arg.line, arg.col)
    /\ \A k \in 1..(Len(items) - 1) : items[k + 1].token.idx = items[k].token.idx - 1
    /\ Len(items) <= TakeLimit

\* C12 as stated: for a valid minified_name, get_original_function_name visits
\* the tokens from lookup_token(line, col) downward and returns get_name() of
\* the first visited token whose identifier is minified_name and whose
\* previously visited token has the identifier `function`; it returns none if
\* minified_name is not valid or there is no such token.  (Stated for maps
\* whose tokens are in position order and calls that do not panic.)
C12_MatchAfterKeywordVisit ==
    (pc = "get_original_function_name" /\ ~ret.panic /\ TokensInPositionOrder) =>
        LET items == VisitedByCall
            matches == {k \in 2..Len(items) :
                           /\ items[k].identifier = Some(arg.minified_name)
                           /\ items[k - 1].identifier = Some(Keyword)}
        IN /\ VisitsDownward(items)
           /\ ret.name =
                  IF is_valid_javascript_identifier(arg.minified_name) /\ matches # {}
                  THEN Token_get_name(sm, items[Min(matches)].token.raw)
                  ELSE None

\* C12 amended: for a valid minified_name, get_original_function_name visits
\* the tokens from lookup_token(line, col) downward and returns get_name() of
\* the first visited token whose identifier is minified_name and for which the
\* token visited next (the one with index one less) has the identifier
\* `function`; it returns none if minified_name is not valid or there is no
\* such token.
C12_MatchBeforeKeywordVisit ==
    (pc = "get_original_function_name" /\ ~ret.panic) =>
        LET items == VisitedByCall
            matches == {k \in 1..(Len(items) - 1) :
                           /\ items[k].identifier = Some(arg.minified_name)
                           /\ items[k + 1].identifier = Some(Keyword)}
        IN /\ VisitsDownward(items)
           /\ ret.name =
                  IF is_valid_javascript_identifier(arg.minified_name) /\ matches # {}
                  THEN Token_get_name(sm, items[Min(matches)].token.raw)
                  ELSE None

\* a call returned the name of a token that was not the first one visited,
\* the token visited after it being on the keyword
C12_Witness ==
    /\ pc = "get_original_function_name"
    /\ ret.name # None
    /\ LET items == VisitedByCall
       IN \E k \in 2..(Len(items) - 1) :
              /\ items[k].identifier = Some(arg.minified_name)
              /\ items[k + 1].identifier = Some(Keyword)
              /\ ret.name = Token_get_name(sm, items[k].token.raw)

\* the call of the function-name scenario
ScenarioCall ==
    /\ pc = "get_original_function_name"
    /\ sm = ScenarioNameMap
    /\ arg.line = 0 /\ arg.col = 22
    /\ arg.minified_name = <<"b">>
    /\ arg.source = ScenarioText

\* C13 as stated: with the text `function a(){}function b(){}` and tokens at
\* column 9 (name original_a) and column 22 (name original_b),
\* get_original_function_name(0, 22, "b", src) returns original_b.
C13_ScenarioReturnsOriginalB ==
    ScenarioCall => ret = Returned(Some("original_b"))

\* C13 amended: that call returns none; with the tokens at column 14 (the
\* second `function`) and column 23 (the `b`, name original_b),
\* get_original_function_name(0, 23, "b", src) returns original_b.
C13_ScenarioReturnsNone ==
    /\ ScenarioCall => ret = Returned(None)
    /\ (/\ pc = "get_original_function_name"
        /\ sm = KeywordTokenMap
        /\ arg.line = 0 /\ arg.col = 23
        /\ arg.minified_name = <<"b">>
        /\ arg.source = ScenarioText)
           => ret = Returned(Some("original_b"))

\* the call of the scenario was made
C13_Witness == ScenarioCall /\ ~ret.panic

\* the UTF-16 column and the byte offset at which character k (1-based) of a
\* line starts
RECURSIVE ColStart(_, _)
ColStart(line, k) == IF k <= 1 THEN 0 ELSE ColStart(line, k - 1) + len_utf16(line[k - 1])
RECURSIVE ByteStart(_, _)
ByteStart(line, k) == IF k <= 1 THEN 0 ELSE ByteStart(line, k - 1) + len_utf8(line[k - 1])

\* the characters of the line that take two UTF-16 units and have the column
\* col as their second unit
InsidePair(line, col) ==
    {k \in 1..Len(line) : len_utf16(line[k]) = 2 /\ col = ColStart(line, k) + 1}

\* the conversions of a UTF-16 column to a byte offset made by the call that
\* the state is the outcome of: Token::get_minified_name, or a step of the
\* reverse iterator that scanned the line from its start
Conversions ==
    IF pc = "get_minified_name" /\ ret.off # None
    THEN {[line |-> Unwrap(ret.line), col |-> sm.tokens[arg.idx + 1].dst_col,
           off |-> Unwrap(ret.off)]}
    ELSE IF pc = "next" /\ ~ret.panic /\ ret.item # None /\ ~ret.cached
    THEN {[line |-> ret.source_line, col |-> Unwrap(ret.item).token.raw.dst_col,
           off |-> ret.byte_offset]}
    ELSE {}

\* C14 as stated: a column inside the surrogate pair of a code point is
\* converted to the offset of the first byte of that code point.
C14_InsidePairIsStartOfCodePoint ==
    \A c \in Conversions :
        \A k \in InsidePair(c.line, c.col) : c.off = ByteStart(c.line, k)

\* C14 amended: a column inside the surrogate pair of a code point is
\* converted to the offset of the first byte after that code point; every
\* column is converted to the offset of the first code point that starts at
\* or after it, and to the length of the line if there is none.
C14_InsidePairIsEndOfCodePoint ==
    \A c \in Conversions :
        /\ \A k \in InsidePair(c.line, c.col) :
               c.off = ByteStart(c.line, k) + len_utf8(c.line[k])
        /\ LET after == {k \in 1..Len(c.line) : ColStart(c.line, k) >= c.col}
           IN c.off = IF after = {} THEN str_len(c.line)
                      ELSE ByteStart(c.line, Min(after))

\* get_minified_name converted a column inside a surrogate pair
C14_Witness ==
    /\ pc = "get_minified_name"
    /\ \E c \in Conversions : InsidePair(c.line, c.col) # {}

(***************************************************************************)
(* The metadata edits of a regular map.                                    *)
(***************************************************************************)
\* what an edit leaves: the map, and whether the call panicked
Edited(m, panic) == [map |-> m, panic |-> panic]

\* SourceMap::set_file
SourceMap_set_file(m, value) == Edited([m EXCEPT !.file = value], FALSE)

\* SourceMap::set_source: panics if idx is no index of sources
SourceMap_set_source(m, idx, value) ==
    IF idx < Len(m.sources)
    THEN Edited([m EXCEPT !.sources[idx + 1] = value], FALSE)
    ELSE Edited(m, TRUE)

\* SourceMap::set_source_contents: the contents list takes the length of the
\* sources first; the call panics if idx is no index of it
SourceMap_set_source_contents(m, idx, value) ==
    LET n == Len(m.sources)
        resized == IF Len(m.sources_content) # n
                   THEN [i \in 1..n |-> IF i <= Len(m.sources_content)
                                        THEN m.sources_content[i] ELSE None]
                   ELSE m.sources_content
    IN IF idx < Len(resized)
       THEN Edited([m EXCEPT !.sources_content = [resized EXCEPT ![idx + 1] = value]],
                   FALSE)
       ELSE Edited([m EXCEPT !.sources_content = resized], TRUE)

\* SourceMap::remove_names
SourceMap_remove_names_kept(m) == Edited(m, FALSE)

SourceMap_remove_names(m) == Edited([m EXCEPT !.names = << >>], FALSE)

(***************************************************************************)
(* SpecEdit: a regular map built by SourceMap::new, whose tokens refer to  *)
(* its sources and names, and which is then edited by set_file,            *)
(* set_source, set_source_contents and remove_names in any order.          *)
(***************************************************************************)
MaxEditTokens == 2

EditSources == <<"a.js", "b.js">>
EditNames == <<"n">>

\* the tokens of the maps: with a source and a name, with neither, with the
\* second source only, with a name only
EditTokens ==
    {RawToken(0, 2, 0, 0, 0, 0), RawToken(0, 0, 0, 0, Sentinel, Sentinel),
     RawToken(1, 0, 0, 0, 1, Sentinel), RawToken(0, 2, 0, 0, Sentinel, 0)}

\* no contents, contents for the first source only, contents for both
EditContents == {None, Some(<<Some("X")>>), Some(<<None, Some("Y")>>)}

\* the arguments of the edits
EditFiles == {None, Some("f")}
EditSourceIds == {0, 1, 2}
EditSourceValues == {"c.js"}
EditContentValues == {None, Some("Z")}

InitEdit ==
    /\ pc = "new"
    /\ \E toks \in SeqsUpTo(EditTokens, MaxEditTokens), contents \in EditContents :
           sm = SourceMap_new(None, toks, EditNames, EditSources, contents)
    /\ sections = << >>
    /\ kind = "Regular"
    /\ arg = << >>
    /\ ret = None
    /\ iter = None

\* An edit that left `edited`; arg keeps the token list and the index the map
\* had before it.  Nothing is called after a panic.
Edit(name, edited) ==
    /\ pc # "new" => ~ret.panic
    /\ pc' = name
    /\ arg' = [tokens |-> sm.tokens, index |-> sm.index]
    /\ sm' = edited.map
    /\ ret' = [panic |-> edited.panic]
    /\ UNCHANGED <<sections, kind, iter>>

SetFile(value) == Edit("set_file", SourceMap_set_file(sm, value))

SetSource(idx, value) == Edit("set_source", SourceMap_set_source(sm, idx, value))

SetSourceContents(idx, value) ==
    Edit("set_source_contents", SourceMap_set_source_contents(sm, idx, value))

RemoveNames == Edit("remove_names", SourceMap_remove_names(sm))

NextEdit ==
    \/ \E value \in EditFiles : SetFile(value)
    \/ \E idx \in EditSourceIds, value \in EditSourceValues : SetSource(idx, value)
    \/ \E idx \in EditSourceIds, value \in EditContentValues :
           SetSourceContents(idx, value)
    \/ RemoveNames

SpecEdit == InitEdit /\ [][NextEdit]_vars

\* every src_id of the map is the sentinel or an index of its sources
SourceIdsValid ==
    \A i \in 1..Len(sm.tokens) :
        sm.tokens[i].src_id = Sentinel \/ sm.tokens[i].src_id < Len(sm.sources)

C16_IndexSortedAndUntouched ==
    /\ \A j, k \in 1..Len(sm.index) :
           j < k => PairLeq(<<sm.index[j][1], sm.index[j][2]>>,
                            <<sm.index[k][1], sm.index[k][2]>>)
    /\ Len(sm.index) = Len(sm.tokens)
    /\ \A i \in 1..Len(sm.tokens) :
           \E j \in 1..Len(sm.index) :
               sm.index[j] = <<sm.tokens[i].dst_line, sm.tokens[i].dst_col, i - 1>>
    /\ pc # "new" => (sm.tokens = arg.tokens /\ sm.index = arg.index)

\* an edit was made on a map whose token list is not in position order
C16_Witness ==
    /\ pc \in {"set_file", "set_source", "set_source_contents", "remove_names"}
    /\ ~ret.panic
    /\ \E i, j \in 1..Len(sm.tokens) :
           i < j /\ PairLess(Dst(sm.tokens[j]), Dst(sm.tokens[i]))

(***************************************************************************)
(* The safety of the name recovery and the cache of the reverse iterator,  *)
(* in SpecName.                                                            *)
(***************************************************************************)
\* C17: get_original_function_name returns a name or none and never panics;
\* in a step of the reverse iterator the subtraction last_char_offset -
\* dst_col does not underflow and no slice panics.
C17_NeverAborts ==
    /\ pc = "get_original_function_name" => ~ret.panic
    /\ pc = "next" => (~ret.underflow /\ ~ret.panic)

\* C18: a step of the reverse iterator that moves backward from the
\* remembered column and byte offset, on a map whose tokens are in position
\* order (so that the columns visited on a line do not increase), ends at
\* the byte offset that a scan from the start of the line ends at, and
\* extracts the identifier found there.
C18_CacheIsPureOptimisation ==
    (pc = "next" /\ ret.cached /\ ~ret.panic /\ ret.item # None
        /\ TokensInPositionOrder) =>
        LET item == Unwrap(ret.item)
            fresh == uncached_byte_offset(ret.source_line, item.token.raw.dst_col, 0, 0)
        IN /\ ret.byte_offset = fresh
           /\ item.identifier =
                  IF fresh >= str_len(ret.source_line) THEN None
                  ELSE get_javascript_token(slice_from(ret.source_line, fresh))

====
